---- MODULE Spec2Model ----
(***************************************************************************)
(* Model of the two scripts of elastic-schema-tools:                       *)
(*   src/ecs-url-to-csv.py  download, change detection, rotation  (Spec)   *)
(*   src/ecs-csv-to-sql.py  DDL / INSERT compiler                 (SpecSql)*)
(*                                                                         *)
(* Text.  A Python str is a sequence of chunks; a chunk is a run of        *)
(* ordinary characters, and every character the code or the claims look    *)
(* at on its own (the apostrophe, brackets, commas) is a chunk of its own. *)
(* "key'word" is <<"key", "'", "word">>, the empty string is <<>>.         *)
(* A CSV file is what csv.reader yields for it: a sequence of rows, each   *)
(* a sequence of str.                                                      *)
(***************************************************************************)
EXTENDS Integers, Sequences, FiniteSets, TLC

VARIABLES
    pc,          \* ecs-url-to-csv.py: position of the run inside main(url)
    fs,          \* the directory data/Elastic: file name -> file
    cache0,      \* history: the file ecs.csv as it was when the run started
    CACHE,       \* CACHE["CONTENT"]: OLD, NEW (field NEW_), CHANGES, RAW
    has_changes, \* main's local has_changes: "unset", "True" or "False"
    exit_code,   \* process exit status, -1 while the process runs
    exception,   \* the exception that ended the run, "" if none
    sql_pc,      \* ecs-csv-to-sql.py: position of the run inside main(...)
    data,        \* ecs-csv-to-sql.py: main's local data
    sql,         \* ecs-csv-to-sql.py: main's local sql
    sql_file     \* the file DDL-ecs.sql

vars == <<pc, fs, cache0, CACHE, has_changes, exit_code, exception,
          sql_pc, data, sql, sql_file>>

sqlVars == <<sql_pc, data, sql, sql_file>>

(***************************************************************************)
(* Bounds of the model                                                     *)
(***************************************************************************)
MaxRows == 2       \* data rows of a CSV file of the download script
MaxSqlRows == 2    \* data rows of a CSV file of the SQL script

(***************************************************************************)
(* Python values                                                           *)
(***************************************************************************)
PyStr(s)  == [t |-> "str",  s |-> s,    b |-> FALSE]
PyBool(b) == [t |-> "bool", s |-> <<>>, b |-> b]
PyNone    == [t |-> "none", s |-> <<>>, b |-> FALSE]

\* an optional object: None, or a list / str held in v
None    == [some |-> FALSE, v |-> <<>>]
Some(x) == [some |-> TRUE,  v |-> x]

\* a file of the directory: missing, or present with a content
NoFile  == [exists |-> FALSE, content |-> <<>>]
File(c) == [exists |-> TRUE,  content |-> c]

Min(a, b) == IF a < b THEN a ELSE b

\* set(...) of the elements of a list
SetOf(seq) == {seq[i] : i \in 1..Len(seq)}

\* a dict is the sequence of its <<key, value>> items, in insertion order
HasKey(d, k) == \E i \in 1..Len(d) : d[i][1] = k
Get(d, k)    == d[CHOOSE i \in 1..Len(d) : d[i][1] = k][2]
Put(d, k, v) == [i \in 1..Len(d) |-> IF d[i][1] = k THEN <<k, v>> ELSE d[i]]

(***************************************************************************)
(* Constants of the scripts                                                *)
(***************************************************************************)
ECS_CSV_FILE    == <<"ecs", ".csv">>
ECS_CSV_TEMFILE == <<"ecs-tempfile", ".csv">>
ECS_CSV_COLUMN_COUNT == 9

Header == <<"ECS_Version", "Indexed", "Field_Set", "Field", "Type", "Level",
            "Normalization", "Example", "Description">>

(***************************************************************************)
(* readfile and its helpers (the same code in both scripts)                *)
(***************************************************************************)
_has_data(rawfile) == Len(rawfile) > 1

_has_right_column_number(rawfile) == Len(rawfile[1]) = ECS_CSV_COLUMN_COUNT

\* dict(zip(rawfile[0], l)) for every l of rawfile[1:]
_format_data(rawfile) ==
    [n \in 1..(Len(rawfile) - 1) |->
        [i \in 1..Min(Len(rawfile[1]), Len(rawfile[n + 1])) |->
            <<rawfile[1][i], PyStr(rawfile[n + 1][i])>>]]

\* bool(str): the empty string is False, every other string True
PyTruth(v) == IF v.t = "str" THEN v.s # <<>> ELSE v.t = "bool" /\ v.b

_clean_row(d) ==
    LET d1 == Put(d, "Indexed", PyBool(PyTruth(Get(d, "Indexed"))))
        d2 == IF Get(d1, "Normalization") = PyStr(<<>>)
              THEN Put(d1, "Normalization", PyNone) ELSE d1
    IN  IF Get(d2, "Example") = PyStr(<<>>) THEN Put(d2, "Example", PyNone) ELSE d2

_clean_data(rows) == [n \in 1..Len(rows) |-> _clean_row(rows[n])]

\* d['Indexed'], d["Normalization"] or d["Example"] raises KeyError
_clean_data_raises(rows) ==
    \E n \in 1..Len(rows) :
        \E k \in {"Indexed", "Normalization", "Example"} : ~HasKey(rows[n], k)

\* readfile raises KeyError (inside _clean_data) on this raw content
readfile_raises(rawfile) ==
    /\ _has_data(rawfile)
    /\ _has_right_column_number(rawfile)
    /\ _clean_data_raises(_format_data(rawfile))

readfile(rawfile) ==
    IF ~_has_data(rawfile) THEN <<>>
    ELSE IF ~_has_right_column_number(rawfile) THEN <<>>
    ELSE _clean_data(_format_data(rawfile))

(***************************************************************************)
(* ecs-url-to-csv.py: the files the run can meet                           *)
(***************************************************************************)
Versions == {<<"7.0.0">>, <<"8.0.0">>, <<"9.0.0">>}
Fields   == {<<"host.name">>, <<"host.ip">>}

RawRow(v, f) == <<v, <<"true">>, <<"host">>, f, <<"keyword">>, <<"core">>,
                  <<>>, <<>>, <<"Hostname">>>>

UrlRows == {RawRow(v, f) : v \in Versions, f \in Fields}

SeqsUpTo(S, n) == UNION {[1..k -> S] : k \in 0..n}

\* a CSV whose first column is headed "Version" instead of "ECS_Version"
RenamedHeader == [i \in 1..Len(Header) |-> IF i = 1 THEN "Version" ELSE Header[i]]

UrlContents ==
    {<<Header>> \o rows : rows \in SeqsUpTo(UrlRows, MaxRows)}        \* well formed
    \cup {<<>>}                                                       \* empty file
    \cup {<<SubSeq(Header, 1, 8), SubSeq(r, 1, 8)>> : r \in UrlRows}  \* 8 columns
    \cup {<<RenamedHeader, r>> : r \in UrlRows}                       \* no ECS_Version
    \cup {<<Header, <<v>>>> : v \in Versions}                         \* a short row

RECURSIVE StrReplace(_, _, _)
\* str.replace(old, new) where old is one chunk
StrReplace(s, old, new) ==
    IF s = <<>> THEN <<>>
    ELSE (IF Head(s) = old THEN new ELSE <<Head(s)>>) \o StrReplace(Tail(s), old, new)

\* lines 173-174: ECS_CSV_FILE.name.replace(".csv", f".{oldfile_schema}.csv")
oldfile_name(oldfile_schema) ==
    StrReplace(ECS_CSV_FILE, ".csv", <<".">> \o oldfile_schema \o <<".csv">>)

FileNames == {ECS_CSV_FILE, ECS_CSV_TEMFILE} \cup {oldfile_name(v) : v \in Versions}

(***************************************************************************)
(* ecs-url-to-csv.py: change detection                                     *)
(***************************************************************************)
_length_changed(C) ==
    IF ~C.NEW_.some THEN FALSE
    ELSE IF ~C.OLD.some THEN TRUE
    ELSE Len(C.OLD.v) # Len(C.NEW_.v)

\* x["ECS_Version"] raises KeyError for a row of OLD or of NEW
_ECS_Version_raises(C) ==
    \/ \E i \in 1..Len(C.OLD.v) : ~HasKey(C.OLD.v[i], "ECS_Version")
    \/ \E i \in 1..Len(C.NEW_.v) : ~HasKey(C.NEW_.v[i], "ECS_Version")

\* a one-directional comparison: only a version that is new counts
_ECS_Version_changed_oneway(C) ==
    LET old_schema_items == {Get(x, "ECS_Version") : x \in SetOf(C.OLD.v)}
        new_schema_items == {Get(x, "ECS_Version") : x \in SetOf(C.NEW_.v)}
    IN  \E vv \in new_schema_items : vv \notin old_schema_items

\* The two nested loops leave only when has_changes is set, so they visit
\* pairs of the two sets until one pair differs: the result is the same for
\* every iteration order of the sets.
_ECS_Version_changed(C) ==
    LET old_schema_items == {Get(x, "ECS_Version") : x \in SetOf(C.OLD.v)}
        new_schema_items == {Get(x, "ECS_Version") : x \in SetOf(C.NEW_.v)}
    IN  IF Cardinality(old_schema_items) # Cardinality(new_schema_items) THEN TRUE
        ELSE \E v \in old_schema_items : \E vv \in new_schema_items : v # vv

\* repr of a value inside str(dict)
PyRepr(v) ==
    CASE v.t = "str"  -> <<"'">> \o v.s \o <<"'">>
      [] v.t = "bool" -> IF v.b THEN <<"True">> ELSE <<"False">>
      [] OTHER        -> <<"None">>

\* str(v) of a row: its items in insertion order, each value by its repr.
\* hash(str(v)) is taken as collision-free, so the string stands for the hash.
RowStr(d) == [i \in 1..Len(d) |-> <<d[i][1], PyRepr(d[i][2])>>]

_lines_changed(C) ==
    LET old_hashmap == {RowStr(v) : v \in SetOf(C.OLD.v)}
        new_hashmap == {RowStr(v) : v \in SetOf(C.NEW_.v)}
    IN  \E k \in new_hashmap : k \notin old_hashmap

content_has_changed_raises(C) == ~_length_changed(C) /\ _ECS_Version_raises(C)

content_has_changed(C) ==
    IF _length_changed(C) THEN TRUE
    ELSE IF _ECS_Version_changed(C) THEN TRUE
    ELSE IF _lines_changed(C) THEN TRUE
    ELSE FALSE

\* cleanup: os.remove(ECS_CSV_TEMFILE) if it exists
cleanup(f) == IF f[ECS_CSV_TEMFILE].exists THEN [f EXCEPT ![ECS_CSV_TEMFILE] = NoFile] ELSE f

(***************************************************************************)
(* ecs-url-to-csv.py: one run of main(url)                                 *)
(***************************************************************************)
\* an exception nobody catches ends the process with status 1
Raise(e) ==
    /\ exception' = e
    /\ exit_code' = 1
    /\ pc' = "exited"

InitUrl ==
    /\ pc = "start"
    /\ \E cache \in {NoFile} \cup {File(c) : c \in UrlContents} :
       \E stale \in {NoFile, File(<<Header>>)} :
          fs = [f \in FileNames |->
                  IF f = ECS_CSV_FILE THEN cache
                  ELSE IF f = ECS_CSV_TEMFILE THEN stale
                  ELSE NoFile]
    /\ cache0 = fs[ECS_CSV_FILE]
    /\ CACHE = [OLD |-> None, NEW_ |-> None, CHANGES |-> None, RAW |-> None]
    /\ has_changes = "unset"
    /\ exit_code = -1
    /\ exception = ""

\* line 196: cleanup(False)
main_cleanup_first ==
    /\ pc = "start"
    /\ fs' = cleanup(fs)
    /\ pc' = "_load_cache_old"
    /\ UNCHANGED <<cache0, CACHE, has_changes, exit_code, exception>>
    /\ UNCHANGED sqlVars

\* init_cache, line 116: CACHE["CONTENT"]["OLD"] = readfile(ECS_CSV_FILE)
main_load_cache_old ==
    /\ pc = "_load_cache_old"
    /\ IF ~fs[ECS_CSV_FILE].exists
       THEN Raise("FileNotFoundError") /\ UNCHANGED CACHE
       ELSE IF readfile_raises(fs[ECS_CSV_FILE].content)
       THEN Raise("KeyError") /\ UNCHANGED CACHE
       ELSE /\ CACHE' = [CACHE EXCEPT !.OLD = Some(readfile(fs[ECS_CSV_FILE].content))]
            /\ pc' = "download"
            /\ UNCHANGED <<exit_code, exception>>
    /\ UNCHANGED <<fs, cache0, has_changes>>
    /\ UNCHANGED sqlVars

\* download(url): _download_data keeps the body in RAW, _save_downloaded_content
\* writes it to the scratch file.  The body is whatever the server sends.
main_download ==
    /\ pc = "download"
    /\ \E content \in UrlContents :
        /\ CACHE' = [CACHE EXCEPT !.RAW = Some(content)]
        /\ fs' = [fs EXCEPT ![ECS_CSV_TEMFILE] = File(content)]
    /\ pc' = "_load_cache_new"
    /\ UNCHANGED <<cache0, has_changes, exit_code, exception>>
    /\ UNCHANGED sqlVars

\* _load_cache_new, line 105: CACHE["CONTENT"]["NEW"] = readfile(ECS_CSV_TEMFILE)
main_load_cache_new ==
    /\ pc = "_load_cache_new"
    /\ IF readfile_raises(fs[ECS_CSV_TEMFILE].content)
       THEN Raise("KeyError") /\ UNCHANGED CACHE
       ELSE /\ CACHE' = [CACHE EXCEPT !.NEW_ = Some(readfile(fs[ECS_CSV_TEMFILE].content))]
            /\ pc' = "_check_new_cache_loaded"
            /\ UNCHANGED <<exit_code, exception>>
    /\ UNCHANGED <<fs, cache0, has_changes>>
    /\ UNCHANGED sqlVars

\* init_cache, lines 118-119: _check_new_cache_loaded(), _init_changes_cache()
main_check_new_cache_loaded ==
    /\ pc = "_check_new_cache_loaded"
    /\ IF ~CACHE.NEW_.some
       THEN Raise("Exception") /\ UNCHANGED CACHE
       ELSE /\ CACHE' = [CACHE EXCEPT !.CHANGES = Some(<<>>)]
            /\ pc' = "content_has_changed"
            /\ UNCHANGED <<exit_code, exception>>
    /\ UNCHANGED <<fs, cache0, has_changes>>
    /\ UNCHANGED sqlVars

\* lines 198-203: the try block around content_has_changed and the branch on it
main_content_has_changed ==
    /\ pc = "content_has_changed"
    /\ IF content_has_changed_raises(CACHE)
       THEN \* except Exception: print, sys.exit(1)
            /\ exception' = "KeyError"
            /\ exit_code' = 1
            /\ pc' = "exited"
            /\ UNCHANGED has_changes
       ELSE /\ has_changes' = IF content_has_changed(CACHE) THEN "True" ELSE "False"
            /\ pc' = IF content_has_changed(CACHE) THEN "L172" ELSE "cleanup"
            /\ UNCHANGED <<exit_code, exception>>
    /\ UNCHANGED <<fs, cache0, CACHE>>
    /\ UNCHANGED sqlVars

\* The type of the object line 173 binds to oldfile_name: str.replace returns a str
oldfile_name_type == "str"

\* update_content, one statement at a time
main_update_content ==
    /\ pc \in {"L172", "L175", "L176", "L182"}
    /\ LET OLD == CACHE.OLD.v
           last == OLD[Len(OLD)]
           oldfile == oldfile_name(Get(last, "ECS_Version").s)
       IN  CASE pc = "L172" ->
                  \* oldfile_schema = CACHE["CONTENT"]["OLD"][-1]["ECS_Version"]
                  /\ IF Len(OLD) = 0 THEN Raise("IndexError")
                     ELSE IF ~HasKey(last, "ECS_Version") THEN Raise("KeyError")
                     ELSE pc' = "L175" /\ UNCHANGED <<exit_code, exception>>
                  /\ UNCHANGED fs
             [] pc = "L175" ->
                  \* print(f"... to {oldfile_name.name}"): only a Path has .name
                  /\ IF oldfile_name_type # "Path" THEN Raise("AttributeError")
                     ELSE pc' = "L176" /\ UNCHANGED <<exit_code, exception>>
                  /\ UNCHANGED fs
             [] pc = "L176" ->
                  \* lines 176-181: read ECS_CSV_FILE, write it to oldfile
                  /\ fs' = [fs EXCEPT ![oldfile] = File(fs[ECS_CSV_FILE].content)]
                  /\ pc' = "L182"
                  /\ UNCHANGED <<exit_code, exception>>
             [] pc = "L182" ->
                  \* lines 182-184: write RAW to ECS_CSV_FILE
                  /\ fs' = [fs EXCEPT ![ECS_CSV_FILE] = File(CACHE.RAW.v)]
                  /\ pc' = "cleanup"
                  /\ UNCHANGED <<exit_code, exception>>
    /\ UNCHANGED <<cache0, CACHE, has_changes>>
    /\ UNCHANGED sqlVars

\* lines 206-207: cleanup(True), sys.exit(0)
main_cleanup_last ==
    /\ pc = "cleanup"
    /\ fs' = cleanup(fs)
    /\ exit_code' = 0
    /\ pc' = "exited"
    /\ UNCHANGED <<cache0, CACHE, has_changes, exception>>
    /\ UNCHANGED sqlVars

(***************************************************************************)
(* ecs-csv-to-sql.py: SQL text.  White space between chunks is left out.   *)
(***************************************************************************)
DQ == "\""

DEFAULT_SCHEMA_NAME == <<"ecs">>
DEFAULT_TABLE_NAME  == <<"elastic_log_schema">>
DEFAULT_TABLE_OWNER == <<"postgres">>
ECS_SQL_FILE        == <<"DDL-ecs", ".sql">>

RECURSIVE Join(_, _)
\* sep.join(parts), parts a list of str
Join(parts, sep) ==
    IF parts = <<>> THEN <<>>
    ELSE IF Len(parts) = 1 THEN parts[1]
    ELSE parts[1] \o sep \o Join(Tail(parts), sep)

\* f'"{x}"'
Quoted(x) == <<DQ>> \o x \o <<DQ>>

\* the iteration orders a set can have: the lists of its elements, each once
Orders(S) == {p \in [1..Cardinality(S) -> S] : \A x \in S : \E i \in DOMAIN p : p[i] = x}

RECURSIVE _add_constraint_loop_offbyone(_, _, _)
\* the comma test written  i <= len(acceptable_items) - 1
_add_constraint_loop_offbyone(CONSTRAINT, order, i) ==
    IF i >= Len(order) THEN CONSTRAINT
    ELSE LET t   == order[i + 1]
             lit == CONSTRAINT \o <<"'">> \o t.s \o <<"'", "::bpchar">>
         IN  _add_constraint_loop_offbyone(
                 IF i <= Len(order) - 1 THEN lit \o <<",">> ELSE lit \o <<"]", ")", ")">>,
                 order, i + 1)

RECURSIVE _add_constraint_loop(_, _, _)
\* lines 84-91, from index i (0-based) on, appended to CONSTRAINT
_add_constraint_loop(CONSTRAINT, order, i) ==
    IF i >= Len(order) THEN CONSTRAINT
    ELSE LET t   == order[i + 1]
             lit == CONSTRAINT \o <<"'">> \o t.s \o <<"'", "::bpchar">>
         IN  _add_constraint_loop(
                 IF i < Len(order) - 1 THEN lit \o <<",">> ELSE lit \o <<"]", ")", ")">>,
                 order, i + 1)

\* set([d[varname] for d in data])
acceptable_items(varname, rows) == {Get(d, varname) : d \in SetOf(rows)}

\* order: the order in which the for loop meets the elements of the set
_add_constraint(schema_name, table_name, varname, order) ==
    _add_constraint_loop(
        <<"CONSTRAINT", DQ>> \o schema_name \o <<"_">> \o table_name \o <<"_", varname,
          "_oneof", DQ, "CHECK", "(", DQ, varname, DQ, "=", "ANY", "(", "ARRAY", "[">>,
        order, 0)

_make_primary_key(fields) ==
    <<"PRIMARY KEY", "(">> \o Join([i \in 1..Len(fields) |-> Quoted(<<fields[i]>>)], <<",">>)
        \o <<")">>

constrained_fields == <<"Type", "Field_Set", "Level">>

\* lines 101-111: the nine column definitions
ColumnDefinitions ==
    Quoted(<<"ECS_Version">>) \o <<"character", "(", "16", ")", "NOT NULL", ",">>
    \o Quoted(<<"Indexed">>) \o <<"boolean", "NOT NULL", ",">>
    \o Quoted(<<"Field_Set">>) \o <<"character", "(", "16", ")", "NOT NULL", ",">>
    \o Quoted(<<"Field">>) \o <<"character", "(", "96", ")", "NOT NULL", ",">>
    \o Quoted(<<"Type">>) \o <<"character", "(", "16", ")", "NOT NULL", ",">>
    \o Quoted(<<"Level">>) \o <<"character", "(", "16", ")", "NOT NULL", ",">>
    \o Quoted(<<"Normalization">>) \o <<"character", "(", "16", ")", ",">>
    \o Quoted(<<"Example">>) \o <<"text", ",">>
    \o Quoted(<<"Description">>) \o <<"text", ",">>

RECURSIVE make_sql_loop(_, _, _, _, _)
\* lines 115-120, from the k-th constrained field on
make_sql_loop(TABLE, schema_name, table_name, orders, k) ==
    IF k > Len(constrained_fields) THEN TABLE
    ELSE LET t == constrained_fields[k]
             T1 == TABLE \o _add_constraint(schema_name, table_name, t, orders[k])
         IN  make_sql_loop(
                 IF t # constrained_fields[Len(constrained_fields)] THEN T1 \o <<",">> ELSE T1,
                 schema_name, table_name, orders, k + 1)

\* orders[k]: the iteration order of the k-th constraint's set of values
make_sql(schema_name, table_name, table_owner, orders) ==
    make_sql_loop(
        <<"CREATE TABLE IF NOT EXISTS">> \o Quoted(schema_name) \o <<".">>
            \o Quoted(table_name) \o <<"(">> \o ColumnDefinitions
            \o _make_primary_key(<<"ECS_Version", "Field_Set", "Field", "Type", "Level">>)
            \o <<",">>,
        schema_name, table_name, orders, 1)
    \o <<")", ";", "ALTER TABLE IF EXISTS">> \o Quoted(schema_name) \o <<".">>
    \o Quoted(table_name) \o <<"OWNER to">> \o table_owner \o <<";">>

\* v.replace("'", "")
StripQuotes(s) == SelectSeq(s, LAMBDA c : c # "'")

\* lines 136-145
prepped(v) ==
    IF v.t = "none" THEN <<"NULL">>
    ELSE IF v.t = "bool" /\ v.b THEN <<"'", "true", "'">>
    ELSE IF v.t = "bool" /\ ~v.b THEN <<"'", "false", "'">>
    ELSE IF v.t = "str" /\ (\E i \in 1..Len(v.s) : v.s[i] = "'")
         THEN <<"'">> \o StripQuotes(v.s) \o <<"'">>
    ELSE <<"'">> \o v.s \o <<"'">>

RECURSIVE make_sql_preload_loop(_, _, _)
\* lines 133-153, from row i (0-based) on
make_sql_preload_loop(INSERT_STATEMENT, rows, i) ==
    IF i >= Len(rows) THEN INSERT_STATEMENT
    ELSE LET d    == rows[i + 1]
             stmt == Join([k \in 1..Len(Header) |-> prepped(Get(d, Header[k]))], <<",">>)
             S1   == INSERT_STATEMENT \o <<"(">> \o stmt \o <<")">>
         IN  make_sql_preload_loop(IF i < Len(rows) - 1 THEN S1 \o <<",">> ELSE S1,
                                   rows, i + 1)

\* prepped[x] raises KeyError: a row has no item for one of the nine fields
make_sql_preload_raises(rows) ==
    \E n \in 1..Len(rows) : \E k \in 1..Len(Header) : ~HasKey(rows[n], Header[k])

make_sql_preload(rows, schema_name, table_name) ==
    make_sql_preload_loop(
        <<"INSERT INTO">> \o Quoted(schema_name) \o <<".">> \o Quoted(table_name) \o <<"(">>
            \o Join([k \in 1..Len(Header) |-> Quoted(<<Header[k]>>)], <<",">>)
            \o <<")", "VALUES">>,
        rows, 0)
    \o <<";">>

(***************************************************************************)
(* ecs-csv-to-sql.py: the files the run can meet, and one run of main      *)
(***************************************************************************)
Types == {<<"keyword">>, <<"long">>, <<"key", "'", "word">>}

\* two kinds of row: all optional columns empty, or all filled
SqlRawRow(t, filled) ==
    IF filled
    THEN <<<<"8.0.0">>, <<"true">>, <<"process">>, <<"process.name">>, t, <<"extended">>,
           <<"array">>, <<"sshd">>, <<"The process", "'", "s name">>>>
    ELSE <<<<"8.0.0">>, <<>>, <<"host">>, <<"host.name">>, t, <<"core">>,
           <<>>, <<>>, <<"Hostname">>>>

SqlRows == {SqlRawRow(t, filled) : t \in Types, filled \in BOOLEAN}

SqlContents ==
    {<<Header>> \o rows : rows \in SeqsUpTo(SqlRows, MaxSqlRows)}         \* well formed
    \cup {<<>>}                                                           \* empty file
    \cup {<<SubSeq(Header, 1, 8), SubSeq(r, 1, 8)>> : r \in SqlRows}      \* 8 columns
    \cup {<<Header, SubSeq(r, 1, 8)>> : r \in SqlRows}                    \* no Description
    \cup {<<Header, SubSeq(r, 1, 2)>> : r \in SqlRows}                    \* a short row

SqlRaise(e) ==
    /\ exception' = e
    /\ exit_code' = 1
    /\ sql_pc' = "exited"

InitSql ==
    /\ pc = "idle"
    /\ \E c \in SqlContents :
          fs = [f \in FileNames |-> IF f = ECS_CSV_FILE THEN File(c) ELSE NoFile]
    /\ cache0 = fs[ECS_CSV_FILE]
    /\ CACHE = [OLD |-> None, NEW_ |-> None, CHANGES |-> None, RAW |-> None]
    /\ has_changes = "unset"
    /\ exit_code = -1
    /\ exception = ""
    /\ sql_pc = "readfile"
    /\ data = <<>>
    /\ sql = <<>>
    /\ sql_file = NoFile

\* line 169: data = readfile()
sql_main_readfile ==
    /\ sql_pc = "readfile"
    /\ IF readfile_raises(fs[ECS_CSV_FILE].content)
       THEN SqlRaise("KeyError") /\ UNCHANGED data
       ELSE /\ data' = readfile(fs[ECS_CSV_FILE].content)
            /\ sql_pc' = "make_sql"
            /\ UNCHANGED <<exit_code, exception>>
    /\ UNCHANGED <<pc, fs, cache0, CACHE, has_changes, sql, sql_file>>

\* line 170: sql = make_sql(data, schema_name, table_name, table_owner)
sql_main_make_sql ==
    /\ sql_pc = "make_sql"
    /\ \E orders \in [1..Len(constrained_fields) ->
                        UNION {Orders(acceptable_items(constrained_fields[k], data)) :
                                 k \in 1..Len(constrained_fields)}] :
        /\ \A k \in 1..Len(constrained_fields) :
              orders[k] \in Orders(acceptable_items(constrained_fields[k], data))
        /\ sql' = make_sql(DEFAULT_SCHEMA_NAME, DEFAULT_TABLE_NAME, DEFAULT_TABLE_OWNER, orders)
    /\ sql_pc' = "make_sql_preload"
    /\ UNCHANGED <<pc, fs, cache0, CACHE, has_changes, exit_code, exception, data, sql_file>>

\* line 171: sql += make_sql_preload(data, schema_name, table_name, table_owner)
sql_main_make_sql_preload ==
    /\ sql_pc = "make_sql_preload"
    /\ IF make_sql_preload_raises(data)
       THEN SqlRaise("KeyError") /\ UNCHANGED sql
       ELSE /\ sql' = sql \o make_sql_preload(data, DEFAULT_SCHEMA_NAME, DEFAULT_TABLE_NAME)
            /\ sql_pc' = "save_sql"
            /\ UNCHANGED <<exit_code, exception>>
    /\ UNCHANGED <<pc, fs, cache0, CACHE, has_changes, data, sql_file>>

\* line 172: save_sql(sql, ECS_SQL_FILE, False); main returns
sql_main_save_sql ==
    /\ sql_pc = "save_sql"
    /\ sql_file' = File(sql)
    /\ exit_code' = 0
    /\ sql_pc' = "exited"
    /\ UNCHANGED <<pc, fs, cache0, CACHE, has_changes, exception, data, sql>>

NextSql ==
    \/ sql_main_readfile
    \/ sql_main_make_sql
    \/ sql_main_make_sql_preload
    \/ sql_main_save_sql

SpecSql == InitSql /\ [][NextSql]_vars

(***************************************************************************)
(* Spec: one run of ecs-url-to-csv.py, the SQL script not running          *)
(***************************************************************************)
InitSqlIdle ==
    /\ sql_pc = "idle"
    /\ data = <<>>
    /\ sql = <<>>
    /\ sql_file = NoFile

Init == InitUrl /\ InitSqlIdle

Next ==
    \/ main_cleanup_first
    \/ main_load_cache_old
    \/ main_download
    \/ main_load_cache_new
    \/ main_check_new_cache_loaded
    \/ main_content_has_changed
    \/ main_update_content
    \/ main_cleanup_last

Spec == Init /\ [][Next]_vars

(***************************************************************************)
(* Properties of ecs-url-to-csv.py                                         *)
(***************************************************************************)
\* init_cache has returned: the run is at or past content_has_changed
InitCacheDone == CACHE.CHANGES.some

\* the old snapshot has a last row that carries an ECS_Version
OldHasVersion ==
    /\ CACHE.OLD.some
    /\ Len(CACHE.OLD.v) > 0
    /\ HasKey(CACHE.OLD.v[Len(CACHE.OLD.v)], "ECS_Version")

\* the archive file update_content names: ecs.<version of OLD's last row>.csv
ArchiveName == oldfile_name(Get(CACHE.OLD.v[Len(CACHE.OLD.v)], "ECS_Version").s)

\* C1: every run that ends at or after content_has_changed (no change, a
\* rotation, an exception in content_has_changed or in update_content) leaves
\* no scratch file ecs-tempfile.csv behind.
C1_ScratchRemovedOnExit ==
    (pc = "exited" /\ InitCacheDone) => ~fs[ECS_CSV_TEMFILE].exists

\* C2: comparing a snapshot with an identical copy of itself reports no change.
C2_SelfCompareUnchanged ==
    (has_changes # "unset" /\ CACHE.OLD.v = CACHE.NEW_.v) => has_changes = "False"

\* C3: after a detected change on a non-empty old snapshot, when the run has
\* ended, the archive ecs.<v>.csv holds the bytes ecs.csv had before the run,
\* ecs.csv holds the downloaded content and the scratch file is gone.
C3_RotationResult ==
    (pc = "exited" /\ has_changes = "True" /\ OldHasVersion) =>
        /\ fs[ArchiveName] = cache0
        /\ fs[ECS_CSV_FILE] = File(CACHE.RAW.v)
        /\ ~fs[ECS_CSV_TEMFILE].exists

\* C4: a run that ends without an exception exits with status 0, and a run
\* whose download is not a usable snapshot (fewer than 2 rows, or a header
\* that does not have 9 columns) exits with a non-zero status.
C4_ExitStatus ==
    (pc = "exited" /\ CACHE.RAW.some) =>
        /\ exception = "" => exit_code = 0
        /\ (Len(CACHE.RAW.v) < 2 \/ Len(CACHE.RAW.v[1]) # 9) => exit_code # 0

\* S2 is S with the ECS_Version of exactly one row replaced by another value
OneVersionReplaced(S, S2) ==
    /\ Len(S) = Len(S2)
    /\ \E i \in 1..Len(S) :
        /\ HasKey(S[i], "ECS_Version") /\ HasKey(S2[i], "ECS_Version")
        /\ Get(S[i], "ECS_Version") # Get(S2[i], "ECS_Version")
        /\ S2[i] = Put(S[i], "ECS_Version", Get(S2[i], "ECS_Version"))
        /\ \A j \in 1..Len(S) : j # i => S2[j] = S[j]

\* C7: when NEW is OLD with one row's ECS_Version replaced by a different
\* value, content_has_changed returns true and the version-set check alone
\* already reports the change.
C7_VersionReplacedDetected ==
    (has_changes # "unset" /\ OneVersionReplaced(CACHE.OLD.v, CACHE.NEW_.v)) =>
        /\ has_changes = "True"
        /\ _ECS_Version_changed(CACHE)

\* content_has_changed has answered for a pair that differs in one version
\* and keeps the number of distinct versions
C7_Witness ==
    /\ has_changes = "True"
    /\ OneVersionReplaced(CACHE.OLD.v, CACHE.NEW_.v)
    /\ Len(CACHE.OLD.v) = 2
    /\ Cardinality({Get(x, "ECS_Version") : x \in SetOf(CACHE.OLD.v)}) = 2
    /\ Cardinality({Get(x, "ECS_Version") : x \in SetOf(CACHE.NEW_.v)}) = 2

C10_NoFalseNegative ==
    has_changes = "False" =>
        /\ \A r \in SetOf(CACHE.OLD.v) : r \in SetOf(CACHE.NEW_.v)
        /\ \A r \in SetOf(CACHE.NEW_.v) : r \in SetOf(CACHE.OLD.v)

(***************************************************************************)
(* Properties of ecs-csv-to-sql.py                                         *)
(***************************************************************************)
Openers == {"(", "["}
Closers == {")", "]"}

\* the number of chunks of the set X among toks[a..b]
CountIn(toks, X, a, b) == Cardinality({k \in a..b : toks[k] \in X})

\* every closing bracket closes the innermost bracket still open, of its own
\* kind, and no bracket stays open
Balanced(toks) ==
    /\ CountIn(toks, Openers, 1, Len(toks)) = CountIn(toks, Closers, 1, Len(toks))
    /\ \A i \in 1..Len(toks) :
          toks[i] \in Closers =>
             \E j \in 1..(i - 1) :
                /\ toks[j] = (IF toks[i] = ")" THEN "(" ELSE "[")
                /\ CountIn(toks, Openers, j + 1, i - 1) = CountIn(toks, Closers, j + 1, i - 1)
                /\ \A m \in (j + 1)..(i - 1) :
                      CountIn(toks, Openers, m, i - 1) <= CountIn(toks, Closers, m, i - 1)

\* C5: compiling an empty snapshot gives a CREATE TABLE statement in which
\* every bracket that is opened (ARRAY[, ANY(, CHECK(, the table's own
\* parenthesis) is closed again.
C5_EmptySnapshotBalanced ==
    (sql_pc = "make_sql_preload" /\ Len(data) = 0) => Balanced(sql)

\* reading the text left to right, the apostrophes open and close literals in
\* turn; a closed literal is followed by its cast, by a comma or by a closing
\* parenthesis, and no literal stays open at the end
LiteralsWellFormed(toks) ==
    /\ CountIn(toks, {"'"}, 1, Len(toks)) % 2 = 0
    /\ \A i \in 1..Len(toks) :
          (toks[i] = "'" /\ CountIn(toks, {"'"}, 1, i) % 2 = 0) =>
             /\ i < Len(toks)
             /\ toks[i + 1] \in {"::bpchar", ",", ")"}

\* some row's Type holds an apostrophe
TypeHasApostrophe ==
    \E n \in 1..Len(data) : \E i \in 1..Len(Get(data[n], "Type").s) :
        Get(data[n], "Type").s[i] = "'"

\* C6: for a snapshot with a row whose Type holds an apostrophe, the compiled
\* text (CREATE TABLE with its CHECK constraints, and INSERT) has no broken
\* string literal.
C6_NoBrokenLiteral ==
    (sql_pc = "save_sql" /\ TypeHasApostrophe) => LiteralsWellFormed(sql)

\* position of the k-th chunk x of toks
KthPosition(toks, x, k) ==
    CHOOSE i \in 1..Len(toks) :
        /\ toks[i] = x
        /\ Cardinality({j \in 1..i : toks[j] = x}) = k

\* position of the first "]" after position p, Len(toks) + 1 if there is none
ArrayEnd(toks, p) ==
    IF \E i \in (p + 1)..Len(toks) : toks[i] = "]"
    THEN CHOOSE i \in (p + 1)..Len(toks) :
            toks[i] = "]" /\ \A j \in (p + 1)..(i - 1) : toks[j] # "]"
    ELSE Len(toks) + 1

\* the values of a list, each as a quoted bpchar literal, one comma between two
LiteralList(p) ==
    Join([i \in 1..Len(p) |-> <<"'">> \o p[i].s \o <<"'", "::bpchar">>], <<",">>)

\* C8: for a snapshot with at least one row, the ARRAY of the k-th CHECK
\* constraint lists every distinct value of its column exactly once, with one
\* comma between consecutive values and none before the first or after the
\* last, and is closed by "]))" once.
C8_ConstraintList ==
    (sql_pc = "make_sql_preload" /\ Len(data) >= 1) =>
        /\ Cardinality({i \in 1..Len(sql) : sql[i] = "["}) = Len(constrained_fields)
        /\ Cardinality({i \in 1..Len(sql) : sql[i] = "]"}) = Len(constrained_fields)
        /\ \A k \in 1..Len(constrained_fields) :
            LET first == KthPosition(sql, "[", k)
                last  == ArrayEnd(sql, first)
            IN  /\ \E p \in Orders(acceptable_items(constrained_fields[k], data)) :
                      SubSeq(sql, first + 1, last - 1) = LiteralList(p)
                /\ last + 2 <= Len(sql)
                /\ SubSeq(sql, last, last + 2) = <<"]", ")", ")">>

\* make_sql has compiled a snapshot whose Type column has several values
C8_Witness ==
    /\ sql_pc = "make_sql_preload"
    /\ Len(data) >= 2
    /\ Cardinality(acceptable_items("Type", data)) >= 2

====
